---- MODULE Spec2Model ----
(***************************************************************************)
(* Model of client/www/wasm_server.py: a static file server built from     *)
(* socketserver.TCPServer and http.server.SimpleHTTPRequestHandler, with   *)
(* the ".wasm" MIME type registered and two cross-origin isolation headers *)
(* added by WASMHandler.end_headers.                                       *)
(*                                                                         *)
(* The program is 28 lines; what it does at run time is what the classes   *)
(* it instantiates do (CPython 3.11 http/server.py, socketserver.py,       *)
(* posixpath.py, mimetypes.py).  Each definition names the line of         *)
(* wasm_server.py that brings the modelled behaviour into the program.     *)
(***************************************************************************)
EXTENDS Integers, Sequences, FiniteSets, TLC

VARIABLES
    argv,        \* sys.argv[1:], each argument a sequence of characters
    pc,          \* position of the main program
    typesMap,    \* mimetypes registry: extension -> content type
    port,        \* the variable port (line 23), NoPort before it is assigned
    listenPort,  \* port the listening socket is bound to, NoPort when none
    exitStatus,  \* exit status of the process, Running while it runs
    raised,      \* the uncaught exception that ended the process, "none" otherwise
    stdout,      \* lines printed so far
    conn,        \* per client: its connection as client and kernel see it
    backlog,     \* established connections waiting for accept(), oldest first
    cur,         \* client whose connection the request handler holds, NoClient if none
    accepts,     \* whether accept() has returned a connection yet
    failures,    \* the kinds of failure so far: "request", "connection"
    last         \* the last request a handler read (req), what it put on the wire
                 \* (resp), whether the client was there to receive it (delivered)
                 \* and the failures that had gone before (after)

vars == <<argv, pc, typesMap, port, listenPort, exitStatus, raised, stdout,
          conn, backlog, cur, accepts, failures, last>>

----------------------------------------------------------------------------
(* Bounds of the model *)

\* Longest request path, in "/"-separated segments.
MaxSegs == 2

(* Program constants *)

DefaultPort == 8000

NoPort == -1
Running == -1
NoClient == "none"
Clients == {"c1", "c2"}

----------------------------------------------------------------------------
(* int(sys.argv[1]) *)

Digits == <<"0", "1", "2", "3", "4", "5", "6", "7", "8", "9">>

IsDigit(ch) == \E i \in 1..10 : Digits[i] = ch

DigitVal(ch) == (CHOOSE i \in 1..10 : Digits[i] = ch) - 1

RECURSIVE DecimalValue(_)
DecimalValue(s) ==
    IF s = <<>> THEN 0
    ELSE 10 * DecimalValue(SubSeq(s, 1, Len(s) - 1)) + DigitVal(s[Len(s)])

\* int(s) for s a str: an optional sign and one or more decimal digits;
\* anything else raises ValueError.
IntOk(s) ==
    LET body == IF s # <<>> /\ s[1] \in {"-", "+"} THEN Tail(s) ELSE s
    IN  body # <<>> /\ \A i \in 1..Len(body) : IsDigit(body[i])

IntValue(s) ==
    IF s[1] = "-" THEN 0 - DecimalValue(Tail(s))
    ELSE IF s[1] = "+" THEN DecimalValue(Tail(s))
    ELSE DecimalValue(s)

\* The command lines tried.
ArgvChoices ==
    { <<>>,
      << <<"9", "9", "9", "9">> >>,
      << <<"0">> >>,
      << <<"8", "0">> >>,
      << <<"7", "0", "0", "0", "0">> >>,
      << <<"-", "1">> >>,
      << <<"a", "b", "c">> >>,
      << <<"8", "0", "0", "0", ".", "5">> >>,
      << <<>> >> }

----------------------------------------------------------------------------
(* The file system the server runs on.  Absolute paths are sequences of     *)
(* names; the server is started in Root, so Root is the served directory.   *)

Root == <<"srv", "www">>

Dir(readable) == [kind |-> "dir", readable |-> readable, data |-> "", target |-> <<>>, mtime |-> 0]
File(readable, data) == [kind |-> "file", readable |-> readable, data |-> data, target |-> <<>>, mtime |-> 5]
Link(target) == [kind |-> "link", readable |-> TRUE, data |-> "", target |-> target, mtime |-> 0]
Missing == [kind |-> "none", readable |-> FALSE, data |-> "", target |-> <<>>, mtime |-> 0]

FS ==
    (<<"srv">> :> Dir(TRUE)) @@
    (<<"srv", "secret.wasm">> :> File(TRUE, "secret-bytes")) @@
    (Root :> Dir(TRUE)) @@
    (Root \o <<"app.wasm">> :> File(TRUE, "app-bytes")) @@
    (Root \o <<"locked.wasm">> :> File(FALSE, "locked-bytes")) @@
    (Root \o <<"pkg">> :> Dir(TRUE)) @@
    (Root \o <<"pkg", "app.wasm">> :> File(TRUE, "pkg-bytes")) @@
    (Root \o <<"docs">> :> Dir(TRUE)) @@
    (Root \o <<"docs", "index.html">> :> File(TRUE, "index-bytes")) @@
    (Root \o <<"vault">> :> Dir(FALSE)) @@
    (Root \o <<"peek">> :> Link(<<"srv", "secret.wasm">>))

Lookup(p) == IF p \in DOMAIN FS THEN FS[p] ELSE Missing

\* What the kernel does with a path: symbolic links are followed at every
\* component.
RECURSIVE Follow(_, _)
Follow(done, rest) ==
    IF rest = <<>> THEN done
    ELSE IF Head(rest) = "." THEN Follow(done, Tail(rest))
    ELSE IF Head(rest) = ".."
         THEN Follow(IF done = <<>> THEN done ELSE SubSeq(done, 1, Len(done) - 1), Tail(rest))
    ELSE LET q == Append(done, Head(rest))
         IN  IF Lookup(q).kind = "link" THEN Follow(Lookup(q).target, Tail(rest))
             ELSE Follow(q, Tail(rest))

RealPath(p) == Follow(<<>>, p)

Stat(p) == Lookup(RealPath(p))

IsPrefix(a, b) == Len(a) <= Len(b) /\ SubSeq(b, 1, Len(a)) = a

----------------------------------------------------------------------------
(* Request paths.  A request path is its text split at "/": whether it      *)
(* starts with "/", its segments as sent (still percent-encoded), whether   *)
(* a "/" follows the last segment.  "/" itself is abs with no segments.     *)

Segments == {"..", ".", "%2e%2e", "..%2f..", "app.wasm", "locked.wasm", "pkg",
             "docs", "vault", "peek", "secret.wasm", "a%00", "missing.bin"}

RECURSIVE SeqsUpTo(_, _)
SeqsUpTo(S, n) ==
    IF n = 0 THEN {<<>>}
    ELSE LET shorter == SeqsUpTo(S, n - 1)
         IN  shorter \cup {Append(q, x) : q \in {r \in shorter : Len(r) = n - 1}, x \in S}

UrlPath(abs, segs, slash) == [abs |-> abs, segs |-> segs, slash |-> slash]

RootUrl == UrlPath(TRUE, <<>>, FALSE)

AllPaths ==
    {RootUrl} \cup
    {UrlPath(a, s, t) : a \in BOOLEAN, s \in SeqsUpTo(Segments, MaxSegs) \ {<<>>}, t \in BOOLEAN}

EndsWithSlash(u) == u.slash \/ u.segs = <<>>

\* The name "a" followed by a NUL byte.
NulName == "a\\0"

\* urllib.parse.unquote on one segment; a decoded "/" splits it.
Unquote(seg) ==
    CASE seg = "%2e%2e" -> <<"..">>
      [] seg = "..%2f.." -> <<"..", "..">>
      [] seg = "a%00" -> <<NulName>>
      [] OTHER -> <<seg>>

RECURSIVE UnquoteAll(_)
UnquoteAll(segs) ==
    IF segs = <<>> THEN <<>> ELSE Unquote(Head(segs)) \o UnquoteAll(Tail(segs))

\* posixpath.normpath: the loop over the components.
RECURSIVE NormComps(_, _, _)
NormComps(abs, comps, acc) ==
    IF comps = <<>> THEN acc
    ELSE LET c == Head(comps)
             rest == Tail(comps)
         IN  IF c \in {"", "."} THEN NormComps(abs, rest, acc)
             ELSE IF c # ".." \/ (~abs /\ acc = <<>>)
                              \/ (acc # <<>> /\ acc[Len(acc)] = "..")
                  THEN NormComps(abs, rest, Append(acc, c))
             ELSE IF acc # <<>> THEN NormComps(abs, rest, SubSeq(acc, 1, Len(acc) - 1))
             ELSE NormComps(abs, rest, acc)

RECURSIVE SimpleNames(_)
SimpleNames(words) ==
    IF words = <<>> THEN <<>>
    ELSE IF Head(words) \in {"", ".", ".."} THEN SimpleNames(Tail(words))
    ELSE <<Head(words)>> \o SimpleNames(Tail(words))

\* A translation that joins every normalised component, ".." included.
translate_path_unfiltered(u) ==
    [comps |-> Root \o NormComps(u.abs, UnquoteAll(u.segs), <<>>),
     slash |-> EndsWithSlash(u)]

\* SimpleHTTPRequestHandler.translate_path: the file system path and whether
\* it ends in "/".
translate_path(u) ==
    [comps |-> Root \o SimpleNames(NormComps(u.abs, UnquoteAll(u.segs), <<>>)),
     slash |-> EndsWithSlash(u)]

----------------------------------------------------------------------------
(* The MIME registry (mimetypes) and guess_type.                            *)

WasmType == "application/wasm"

\* mimetypes.types_map as the platform seeds it: CPython 3.11 ships a ".wasm"
\* entry, older interpreters and some mime.types files do not.
PlatformTypes ==
    { (".html" :> "text/html"),
      (".html" :> "text/html") @@ (".wasm" :> WasmType) }

\* A registration that is lost: the registry stays as the platform seeded it
\* (the handler reading a copy made before line 13, as interpreters before
\* 3.9 did at import of http.server).
add_type_lost(types, type, ext) == types

\* mimetypes.add_type(type, ext): the entry for ext is set, the rest kept.
add_type(types, type, ext) == (ext :> type) @@ types

\* SimpleHTTPRequestHandler.extensions_map
extensions_map ==
    (".gz" :> "application/gzip") @@ (".Z" :> "application/octet-stream") @@
    (".bz2" :> "application/x-bzip2") @@ (".xz" :> "application/x-xz")

\* posixpath.splitext(name)[1] for the names of the model.
Ext(name) ==
    CASE name \in {"app.wasm", "locked.wasm", "secret.wasm"} -> ".wasm"
      [] name = "index.html" -> ".html"
      [] name = "missing.bin" -> ".bin"
      [] OTHER -> ""

\* SimpleHTTPRequestHandler.guess_type(path)
guess_type(comps, types) ==
    LET ext == Ext(comps[Len(comps)])
    IN  IF ext \in DOMAIN extensions_map THEN extensions_map[ext]
        ELSE IF ext \in DOMAIN types THEN types[ext]
        ELSE "application/octet-stream"

----------------------------------------------------------------------------
(* The response side of BaseHTTPRequestHandler.  A handler h carries        *)
(* request_version (ver), the code given to send_response (code), the       *)
(* headers buffer (the status line in status, the header lines in buf) and  *)
(* what has been written to the socket: status line (wstatus), header lines *)
(* (wheaders), body; exc is the exception the handler has raised, if any.   *)

NoBody == [kind |-> "none", code |-> 0, data |-> ""]
ErrorPage(code) == [kind |-> "error", code |-> code, data |-> ""]
FileBody(data) == [kind |-> "file", code |-> 0, data |-> data]
ListingBody == [kind |-> "listing", code |-> 0, data |-> ""]

Handler(ver) ==
    [ver |-> ver, code |-> 0, status |-> 0, buf |-> <<>>,
     wstatus |-> 0, wheaders |-> <<>>, body |-> NoBody, exc |-> ""]

COEP == <<"Cross-Origin-Embedder-Policy", "require-corp">>
COOP == <<"Cross-Origin-Opener-Policy", "same-origin">>

send_response_only(h, code) ==
    IF h.ver # "HTTP/0.9" THEN [h EXCEPT !.status = code] ELSE h

send_header(h, keyword, value) ==
    IF h.ver # "HTTP/0.9" THEN [h EXCEPT !.buf = Append(@, <<keyword, value>>)] ELSE h

\* BaseHTTPRequestHandler.end_headers with flush_headers
base_end_headers(h) ==
    IF h.ver # "HTTP/0.9"
    THEN [h EXCEPT !.wstatus = h.status, !.wheaders = @ \o h.buf, !.status = 0, !.buf = <<>>]
    ELSE h

\* A handler that adds only the first of the two headers.
end_headers_one(h) ==
    base_end_headers(send_header(h, COEP[1], COEP[2]))

\* WASMHandler.end_headers
end_headers(h) ==
    base_end_headers(send_header(send_header(h, COEP[1], COEP[2]), COOP[1], COOP[2]))

send_response(h, code) ==
    send_header(
        send_header(send_response_only([h EXCEPT !.code = code], code),
                    "Server", "SimpleHTTP"),
        "Date", "now")

write_body(h, body) == [h EXCEPT !.body = body]

\* BaseHTTPRequestHandler.send_error; command is self.command at the call.
send_error(h, code, command) ==
    LET h1 == send_header(send_response(h, code), "Connection", "close")
        h2 == send_header(send_header(h1, "Content-Type", "text/html;charset=utf-8"),
                          "Content-Length", "error-page")
        h3 == end_headers(h2)
    IN  IF command # "HEAD" THEN write_body(h3, ErrorPage(code)) ELSE h3

----------------------------------------------------------------------------
(* Requests.  A request is its request line split into words (the path a    *)
(* UrlPath), whether the line is longer than 65536 bytes, how its header    *)
(* block parses, and its If-Modified-Since / If-None-Match headers.         *)

Request(line, long, hdr, ims, inm) ==
    [line |-> line, long |-> long, hdr |-> hdr, ims |-> ims, inm |-> inm]

Plain(line) == Request(line, FALSE, "ok", "none", FALSE)

\* The value of an If-Modified-Since header as a time; files have mtime 5.
HeaderTime(v) == CASE v = "t4" -> 4 [] v = "t5" -> 5 [] v = "t6" -> 6

\* The version word of a request line as (major, minor); <<>> if parse_request
\* raises ValueError on it.
VersionNumber(word) ==
    CASE word = "HTTP/0.9" -> <<0, 9>>
      [] word = "HTTP/1.0" -> <<1, 0>>
      [] word = "HTTP/1.1" -> <<1, 1>>
      [] word = "HTTP/2.0" -> <<2, 0>>
      [] OTHER -> <<>>

\* os.path.isdir and os.path.isfile on a translated path; a name under a
\* directory without search permission cannot be reached.
isdir(tp) == Stat(tp.comps).kind = "dir"

isfile(comps) ==
    /\ Stat(comps).kind = "file"
    /\ Stat(SubSeq(comps, 1, Len(comps) - 1)).readable

\* open(path, 'rb') succeeds
CanOpen(comps) == Stat(comps).kind = "file" /\ Stat(comps).readable

\* open(path, 'rb') raises ValueError (embedded null byte), which the
\* except OSError of send_head does not catch.
OpenRaises(comps) == \E i \in 1..Len(comps) : comps[i] = NulName

\* send_head up to the conditional request, for a path that is no directory
\* or is the index file of one: comps is the file system path, slash whether
\* it ends in "/".
send_file(h, command, comps, slash, req, types) ==
    LET ctype == guess_type(comps, types)
        f == Stat(comps)
    IN  IF slash THEN send_error(h, 404, command)
        ELSE IF OpenRaises(comps) THEN [h EXCEPT !.exc = "ValueError"]
        ELSE IF ~CanOpen(comps) THEN send_error(h, 404, command)
        ELSE IF /\ req.ims # "none" /\ ~req.inm /\ req.ims # "garbage"
                /\ f.mtime <= HeaderTime(req.ims)
             THEN end_headers(send_response(h, 304))
        ELSE LET h1 == send_header(send_response(h, 200), "Content-type", ctype)
                 h2 == send_header(send_header(h1, "Content-Length", "file-size"),
                                   "Last-Modified", "mtime")
                 h3 == end_headers(h2)
             IN  IF command = "GET" THEN write_body(h3, FileBody(f.data)) ELSE h3

\* SimpleHTTPRequestHandler.list_directory
list_directory(h, command, comps) ==
    IF ~Stat(comps).readable THEN send_error(h, 404, command)
    ELSE LET h1 == send_header(send_response(h, 200), "Content-type", "text/html; charset=utf-8")
             h2 == end_headers(send_header(h1, "Content-Length", "listing-size"))
         IN  IF command = "GET" THEN write_body(h2, ListingBody) ELSE h2

\* SimpleHTTPRequestHandler.do_GET / do_HEAD: send_head, then copyfile for GET.
do_GET_or_HEAD(h, command, u, req, types) ==
    LET tp == translate_path(u)
    IN  IF isdir(tp)
        THEN IF ~EndsWithSlash(u)
             THEN end_headers(
                      send_header(send_header(send_response(h, 301), "Location", "url/"),
                                  "Content-Length", "0"))
             ELSE IF isfile(tp.comps \o <<"index.html">>)
                  THEN send_file(h, command, tp.comps \o <<"index.html">>, FALSE, req, types)
             ELSE IF isfile(tp.comps \o <<"index.htm">>)
                  THEN send_file(h, command, tp.comps \o <<"index.htm">>, FALSE, req, types)
             ELSE list_directory(h, command, tp.comps)
        ELSE send_file(h, command, tp.comps, tp.slash, req, types)

\* BaseHTTPRequestHandler.parse_request followed by the dispatch of
\* handle_one_request: the handler after the request has been dealt with.
\* self.command is None ("") until the request line has been accepted.
parse_and_dispatch(req, types) ==
    LET words == req.line
        n == Len(words)
        h0 == Handler("HTTP/0.9")
        vn == IF n >= 3 THEN VersionNumber(words[n]) ELSE <<>>
        h == IF n >= 3 THEN Handler(words[n]) ELSE h0
    IN  IF n = 0 THEN h0
        ELSE IF n >= 3 /\ vn = <<>> THEN send_error(h0, 400, "")
        ELSE IF n >= 3 /\ vn[1] >= 2 THEN send_error(h0, 505, "")
        ELSE IF ~(2 <= n /\ n <= 3) THEN send_error(h, 400, "")
        ELSE IF n = 2 /\ words[1] # "GET" THEN send_error(h, 400, "")
        ELSE IF req.hdr # "ok" THEN send_error(h, 431, words[1])
        ELSE IF words[1] \notin {"GET", "HEAD"} THEN send_error(h, 501, words[1])
        ELSE do_GET_or_HEAD(h, words[1], words[2], req, types)

\* BaseHTTPRequestHandler.handle_one_request on a request that was read
handle_one_request(req, types) ==
    IF req.long THEN send_error(Handler(""), 414, "")
    ELSE parse_and_dispatch(req, types)

\* What the client finds on the socket.
Response(h) ==
    [code |-> h.code, status |-> h.wstatus,
     headers |-> {h.wheaders[i] : i \in 1..Len(h.wheaders)},
     body |-> h.body]

NoResponse == Response(Handler(""))

----------------------------------------------------------------------------
(* The requests clients send.                                               *)

Methods == {"GET", "HEAD", "POST"}

AppUrl == UrlPath(TRUE, <<"app.wasm">>, FALSE)
MissingUrl == UrlPath(TRUE, <<"missing.bin">>, FALSE)
LockedUrl == UrlPath(TRUE, <<"locked.wasm">>, FALSE)
NulUrl == UrlPath(TRUE, <<"a%00">>, FALSE)

\* The requests sent to the running server in Spec: one of each outcome.
Requests ==
    { Plain(<<"GET", AppUrl, "HTTP/1.1">>),
      Plain(<<"GET", AppUrl>>),
      Request(<<"GET", AppUrl, "HTTP/1.1">>, FALSE, "ok", "t5", FALSE),
      Plain(<<"GET", MissingUrl, "HTTP/1.1">>),
      Plain(<<"GET", LockedUrl, "HTTP/1.1">>),
      Plain(<<"POST", AppUrl, "HTTP/1.1">>),
      Plain(<<"GET", NulUrl, "HTTP/1.1">>),
      Plain(<<>>),
      Request(<<"GET", AppUrl, "HTTP/1.1">>, TRUE, "ok", "none", FALSE) }

----------------------------------------------------------------------------
(* The state machine.                                                       *)

Idle == [st |-> "idle", sent |-> "none", open |-> FALSE, got |-> "none"]

NoExchange == [read |-> FALSE, after |-> {}, delivered |-> FALSE, req |-> Plain(<<>>), resp |-> NoResponse]

\* The local ports the kernel hands out for port 0.
EphemeralPorts == {32768, 60999}

Init ==
    /\ argv \in ArgvChoices
    /\ typesMap \in PlatformTypes
    /\ pc = "line13"
    /\ port = NoPort
    /\ listenPort = NoPort
    /\ exitStatus = Running
    /\ raised = "none"
    /\ stdout = <<>>
    /\ conn = [c \in Clients |-> Idle]
    /\ backlog = <<>>
    /\ cur = NoClient
    /\ accepts = FALSE
    /\ failures = {}
    /\ last = NoExchange

\* A program that reports a startup error and carries on.
carry_on(exception) ==
    /\ pc' = "line26"
    /\ raised' = exception
    /\ UNCHANGED exitStatus

\* An exception that reaches the top level: traceback, exit status 1.
Die(exception) ==
    /\ pc' = "exited"
    /\ raised' = exception
    /\ exitStatus' = 1

\* line 13: mimetypes.add_type('application/wasm', '.wasm')
AddType ==
    /\ pc = "line13"
    /\ typesMap' = add_type(typesMap, WasmType, ".wasm")
    /\ pc' = "line23"
    /\ UNCHANGED <<argv, port, listenPort, exitStatus, raised, stdout,
                   conn, backlog, cur, accepts, failures, last>>

\* A program that falls back to the default port on an argument int() rejects.
port_or_default(args) ==
    IF Len(args) > 0 /\ IntOk(args[1]) THEN [error |-> "", value |-> IntValue(args[1])]
    ELSE [error |-> "", value |-> DefaultPort]

\* int(sys.argv[1]) if len(sys.argv) > 1 else 8000: the value, or the
\* exception raised.
port_from_args(args) ==
    IF Len(args) > 0
    THEN IF IntOk(args[1]) THEN [error |-> "", value |-> IntValue(args[1])]
         ELSE [error |-> "ValueError", value |-> NoPort]
    ELSE [error |-> "", value |-> DefaultPort]

\* line 23: port = int(sys.argv[1]) if len(sys.argv) > 1 else 8000
ParsePort ==
    /\ pc = "line23"
    /\ IF port_from_args(argv).error = ""
       THEN /\ port' = port_from_args(argv).value
            /\ pc' = "line25"
            /\ UNCHANGED <<raised, exitStatus>>
       ELSE /\ Die(port_from_args(argv).error)
            /\ UNCHANGED port
    /\ UNCHANGED <<argv, typesMap, listenPort, stdout, conn, backlog, cur,
                   accepts, failures, last>>

\* What bind() can do with a port: the errors it can raise, "" for success.
BindOutcomes(p) ==
    IF p < 0 \/ p > 65535 THEN {"OverflowError"}
    ELSE {""} \cup (IF p # 0 THEN {"OSError"} ELSE {})
              \cup (IF 0 < p /\ p < 1024 THEN {"PermissionError"} ELSE {})

\* A server that listens on the default port whatever it was given.
bound_default(p) == IF p = 0 THEN EphemeralPorts ELSE {DefaultPort}

\* The port a successful bind() listens on.
BoundPorts(p) == IF p = 0 THEN EphemeralPorts ELSE {p}

\* line 25: socketserver.TCPServer(("", port), WASMHandler): bind and listen
Bind ==
    /\ pc = "line25"
    /\ \E outcome \in BindOutcomes(port) :
          IF outcome = ""
          THEN /\ listenPort' \in BoundPorts(port)
               /\ pc' = "line26"
               /\ UNCHANGED <<raised, exitStatus>>
          ELSE /\ Die(outcome)
               /\ UNCHANGED listenPort
    /\ UNCHANGED <<argv, typesMap, port, stdout, conn, backlog, cur,
                   accepts, failures, last>>

\* line 26: print(f"Serving at http://localhost:{port}")
PrintUrl ==
    /\ pc = "line26"
    /\ stdout' = Append(stdout, [text |-> "Serving at http://localhost:", port |-> port])
    /\ pc' = "line27"
    /\ UNCHANGED <<argv, typesMap, port, listenPort, exitStatus, raised,
                   conn, backlog, cur, accepts, failures, last>>

\* line 27: print("WASM files will be served with proper application/wasm MIME type")
PrintNote ==
    /\ pc = "line27"
    /\ stdout' = Append(stdout, [text |-> "WASM files will be served", port |-> NoPort])
    /\ pc' = "line28"
    /\ UNCHANGED <<argv, typesMap, port, listenPort, exitStatus, raised,
                   conn, backlog, cur, accepts, failures, last>>

\* Whether a response is the failure of its request: an error, or nothing
\* at all.
IsFailure(resp) == resp.code >= 400 \/ resp = NoResponse

\* socketserver.BaseServer._handle_request_noblock: where the main program
\* is after a handler that raised (exception) or returned.  An Exception is
\* passed to handle_error and the loop of serve_forever goes on.
after_handler(exception) == "line28"

\* A client connects: the kernel completes the handshake and queues the
\* connection on the listening socket (request_queue_size is 5).
Connect(c) ==
    /\ listenPort # NoPort
    /\ pc # "exited"
    /\ conn[c].st = "idle"
    /\ conn' = [conn EXCEPT ![c] = [st |-> "queued", sent |-> "none", open |-> TRUE, got |-> "none"]]
    /\ backlog' = Append(backlog, c)
    /\ UNCHANGED <<argv, pc, typesMap, port, listenPort, exitStatus, raised,
                   stdout, cur, accepts, failures, last>>

\* A client sends the beginning of a request and then stalls.
SendPart(c) ==
    /\ conn[c].st \in {"queued", "held"}
    /\ conn[c].open
    /\ conn[c].sent = "none"
    /\ conn' = [conn EXCEPT ![c].sent = "part"]
    /\ UNCHANGED <<argv, pc, typesMap, port, listenPort, exitStatus, raised,
                   stdout, backlog, cur, accepts, failures, last>>

\* A client sends the whole request, or the rest of it.
SendRest(c) ==
    /\ conn[c].st \in {"queued", "held"}
    /\ conn[c].open
    /\ conn[c].sent # "full"
    /\ conn' = [conn EXCEPT ![c].sent = "full"]
    /\ UNCHANGED <<argv, pc, typesMap, port, listenPort, exitStatus, raised,
                   stdout, backlog, cur, accepts, failures, last>>

\* A client disconnects (or the network drops the connection) before it
\* has been answered.
Disconnect(c) ==
    /\ conn[c].st \in {"queued", "held"}
    /\ conn[c].open
    /\ conn' = [conn EXCEPT ![c].open = FALSE]
    /\ UNCHANGED <<argv, pc, typesMap, port, listenPort, exitStatus, raised,
                   stdout, backlog, cur, accepts, failures, last>>

\* A client whose connection is over starts afresh.
Forget(c) ==
    /\ conn[c].st = "done"
    /\ conn' = [conn EXCEPT ![c] = Idle]
    /\ UNCHANGED <<argv, pc, typesMap, port, listenPort, exitStatus, raised,
                   stdout, backlog, cur, accepts, failures, last>>

\* A server that starts accepting as soon as the socket listens.
accept_early ==
    /\ listenPort # NoPort
    /\ pc # "exited"
    /\ cur = NoClient
    /\ backlog # <<>>
    /\ cur' = Head(backlog)
    /\ backlog' = Tail(backlog)
    /\ conn' = [conn EXCEPT ![Head(backlog)].st = "held"]
    /\ accepts' = TRUE
    /\ UNCHANGED <<argv, pc, typesMap, port, listenPort, exitStatus, raised,
                   stdout, failures, last>>

\* line 28, serve_forever: select() reports the listening socket readable and
\* get_request() accepts the oldest queued connection.  TCPServer handles it
\* in the same thread: nothing else is accepted until its handler returns.
Accept ==
    /\ pc = "line28"
    /\ cur = NoClient
    /\ backlog # <<>>
    /\ cur' = Head(backlog)
    /\ backlog' = Tail(backlog)
    /\ conn' = [conn EXCEPT ![Head(backlog)].st = "held"]
    /\ accepts' = TRUE
    /\ UNCHANGED <<argv, pc, typesMap, port, listenPort, exitStatus, raised,
                   stdout, failures, last>>

\* The handler of the accepted connection run on the request it read:
\* handle_one_request, then the connection is shut down.  The handler may
\* raise: by itself, or, with the client gone, BrokenPipeError on a write
\* (broken).
Handle(req, broken) ==
    LET h == handle_one_request(req, typesMap)
        resp == Response(h)
        exception == broken \/ h.exc # ""
    IN  /\ broken => ~conn[cur].open
        /\ last' = [read |-> TRUE, after |-> failures, delivered |-> conn[cur].open,
                     req |-> req, resp |-> resp]
        /\ conn' = [conn EXCEPT ![cur] =
                       [st |-> "done", sent |-> "none", open |-> FALSE,
                        got |-> IF conn[cur].open /\ resp # NoResponse
                                THEN "reply" ELSE "closed"]]
        /\ failures' = failures \cup (IF conn[cur].open THEN {} ELSE {"connection"})
                                \cup (IF IsFailure(resp) THEN {"request"} ELSE {})
        /\ pc' = after_handler(exception)
        /\ exitStatus' = IF pc' = "exited" THEN 1 ELSE exitStatus
        /\ raised' = IF pc' = "exited" THEN "handler" ELSE raised
        /\ cur' = NoClient
        /\ UNCHANGED <<argv, typesMap, port, listenPort, stdout, backlog, accepts>>

\* A read that returns on data only, not when the client has closed.
read_returns_on_data(c) == conn[c].sent = "full"

\* rfile.readline() and parse_headers in the handler: the blocking reads
\* return once the request is complete or the client has closed.
read_returns(c) == conn[c].sent = "full" \/ ~conn[c].open

\* line 28, serve_forever: the handler of the accepted connection runs.
\* StreamRequestHandler has timeout None, so its reads block until the
\* request is complete or the client has closed.  protocol_version is
\* HTTP/1.0, so close_connection stays True: one request per connection.
Serve ==
    /\ pc = "line28"
    /\ cur # NoClient
    /\ read_returns(cur)
    /\ IF conn[cur].sent = "none"
       THEN /\ conn' = [conn EXCEPT ![cur] =
                           [st |-> "done", sent |-> "none", open |-> FALSE, got |-> "closed"]]
            /\ failures' = failures \cup {"connection"}
            /\ pc' = after_handler(FALSE)
            /\ cur' = NoClient
            /\ UNCHANGED <<argv, typesMap, port, listenPort, stdout, backlog,
                           accepts, last, exitStatus, raised>>
       ELSE \E req \in Requests, broken \in BOOLEAN : Handle(req, broken)

Next ==
    \/ AddType
    \/ ParsePort
    \/ Bind
    \/ PrintUrl
    \/ PrintNote
    \/ Accept
    \/ Serve
    \/ \E c \in Clients : Connect(c)
    \/ \E c \in Clients : SendPart(c)
    \/ \E c \in Clients : SendRest(c)
    \/ \E c \in Clients : Disconnect(c)
    \/ \E c \in Clients : Forget(c)

Spec == Init /\ [][Next]_vars

\* The server's own steps are taken whenever they can be: the process is
\* scheduled, select() returns when a connection is queued, and the handler's
\* blocking read returns once the request is complete or the client has
\* closed.  Clients are promised nothing except that a connected client that
\* neither stalls nor leaves sends its request.
ServerStep == AddType \/ ParsePort \/ Bind \/ PrintUrl \/ PrintNote \/ Accept \/ Serve

LiveSpec == Spec /\ WF_vars(ServerStep)

----------------------------------------------------------------------------
(* The request handler on its own: a server started without arguments has   *)
(* accepted the connection of c1, whose request (last.req) is any of        *)
(* HandlerRequests; HandleDrawn is the handler running on it.               *)

\* c1's request is req.
Drawn(req) ==
    last = [read |-> FALSE, after |-> {}, delivered |-> FALSE, req |-> req, resp |-> NoResponse]

\* The requests a handler is run on: every request line shape over every
\* path of at most MaxSegs segments.
DrawRequest ==
    \/ \E m \in Methods, u \in AllPaths, v \in {"HTTP/1.0", "HTTP/1.1"} :
          Drawn(Plain(<<m, u, v>>))
    \/ \E u \in AllPaths, v \in {"HTTP/0.9", "HTTP/2.0", "FTP/1.0"} :
          Drawn(Plain(<<"GET", u, v>>))
    \/ \E m \in Methods, u \in AllPaths : Drawn(Plain(<<m, u>>))
    \/ \E m \in Methods, u \in {AppUrl, MissingUrl}, v \in {"HTTP/1.1", "FTP/1.0"} :
          Drawn(Plain(<<m, u, "extra", v>>))
    \/ Drawn(Plain(<<>>))
    \/ \E m \in Methods : Drawn(Plain(<<m>>))
    \/ \E u \in {AppUrl, MissingUrl}, long \in BOOLEAN, hdr \in {"ok", "toolong"} :
          Drawn(Request(<<"GET", u, "HTTP/1.1">>, long, hdr, "none", FALSE))
    \/ \E m \in {"GET", "HEAD"}, u \in AllPaths,
          ims \in {"garbage", "t4", "t5", "t6"}, inm \in BOOLEAN :
          Drawn(Request(<<m, u, "HTTP/1.1">>, FALSE, "ok", ims, inm))

HandlerInit ==
    /\ argv = <<>>
    /\ typesMap \in {add_type(t, WasmType, ".wasm") : t \in PlatformTypes}
    /\ pc = "line28"
    /\ port = DefaultPort
    /\ listenPort = DefaultPort
    /\ exitStatus = Running
    /\ raised = "none"
    /\ stdout = <<[text |-> "Serving at http://localhost:", port |-> DefaultPort],
                  [text |-> "WASM files will be served", port |-> NoPort]>>
    /\ conn = [c \in Clients |->
                  IF c = "c1" THEN [st |-> "held", sent |-> "full", open |-> TRUE, got |-> "none"]
                  ELSE Idle]
    /\ backlog = <<>>
    /\ cur = "c1"
    /\ accepts = TRUE
    /\ failures = {}
    /\ DrawRequest

HandleDrawn ==
    /\ pc = "line28"
    /\ cur # NoClient
    /\ ~last.read
    /\ Handle(last.req, FALSE)

HandlerSpec == HandlerInit /\ [][HandleDrawn]_vars

----------------------------------------------------------------------------
(* Properties of the request handler, checked under HandlerSpec.            *)

Both == {COEP, COOP}

\* The request is answered while request_version is still "HTTP/0.9": its
\* line has one or two words, or a version word that parse_request rejects,
\* or the version word HTTP/0.9 itself.
HandledAs09(req) ==
    LET n == Len(req.line)
    IN  /\ ~req.long
        /\ n >= 1
        /\ \/ n <= 2
           \/ VersionNumber(req.line[n]) = <<>>
           \/ VersionNumber(req.line[n])[1] >= 2
           \/ req.line[n] = "HTTP/0.9"

\* A request line do_GET or do_HEAD is called for.
Dispatched(req) ==
    /\ ~req.long
    /\ req.hdr = "ok"
    /\ \/ Len(req.line) = 2 /\ req.line[1] = "GET"
       \/ /\ Len(req.line) = 3
          /\ req.line[1] \in {"GET", "HEAD"}
          /\ req.line[3] \in {"HTTP/0.9", "HTTP/1.0", "HTTP/1.1"}

\* The URL path names, without "..", "." or encoding, a regular file in the
\* served directory whose name ends in ".wasm".
WasmFileUrl(u) ==
    /\ u.abs /\ ~u.slash /\ u.segs # <<>>
    /\ \A i \in 1..Len(u.segs) : u.segs[i] \notin {"..", ".", "%2e%2e", "..%2f..", "a%00"}
    /\ Lookup(Root \o u.segs).kind = "file"
    /\ Ext(u.segs[Len(u.segs)]) = ".wasm"

\* send_head answers 304: If-Modified-Since is not older than the file and
\* there is no If-None-Match.
NotModified(req, f) ==
    /\ req.ims \in {"t4", "t5", "t6"}
    /\ ~req.inm
    /\ f.mtime <= HeaderTime(req.ims)

\* What the translated path leads to cannot be served: it does not exist (a
\* file named with a trailing "/" does not), or it may not be read.
Gone(tp) ==
    \/ Stat(tp.comps).kind = "none"
    \/ tp.slash /\ Stat(tp.comps).kind = "file"
    \/ ~Stat(tp.comps).readable

\* C1 (as claimed): every response the server emits carries both
\* Cross-Origin-Embedder-Policy: require-corp and
\* Cross-Origin-Opener-Policy: same-origin.
C1_EveryResponseCarriesBoth ==
    (last.read /\ last.resp # NoResponse) => Both \subseteq last.resp.headers

\* C1 (amended): every response that has a status line and header block
\* carries both headers, whatever its status; the only responses without
\* them are those to requests handled as HTTP/0.9, which are a bare body
\* with no status line and no header at all.
C1_EveryResponseHeadCarriesBoth ==
    (last.read /\ last.resp # NoResponse) =>
        IF HandledAs09(last.req)
        THEN last.resp.status = 0 /\ last.resp.headers = {}
        ELSE /\ last.resp.status # 0
             /\ last.resp.status = last.resp.code
             /\ Both \subseteq last.resp.headers

\* An error answer to a malformed request line, with both headers.
C1_Witness ==
    /\ last.read
    /\ Len(last.req.line) = 4
    /\ last.resp.status = 400
    /\ Both \subseteq last.resp.headers

\* C2 (as claimed, of HTTP/1.x requests): a GET for a regular file of the
\* served directory whose name ends in .wasm returns status 200 with
\* Content-Type application/wasm.
C2_WasmGetIs200 ==
    (last.read /\ Dispatched(last.req) /\ last.req.line[1] = "GET"
               /\ ~HandledAs09(last.req)
               /\ WasmFileUrl(last.req.line[2])) =>
        /\ last.resp.status = 200
        /\ <<"Content-type", WasmType>> \in last.resp.headers

\* C2 (amended): an HTTP/1.x GET for a readable regular file of the served
\* directory whose name ends in .wasm, unless it is a conditional request
\* answered 304, returns status 200 with Content-Type application/wasm and
\* the bytes of the file.
C2_ReadableWasmGetIs200 ==
    (last.read /\ Dispatched(last.req) /\ last.req.line[1] = "GET"
               /\ WasmFileUrl(last.req.line[2])
               /\ ~HandledAs09(last.req)
               /\ Lookup(Root \o last.req.line[2].segs).readable
               /\ ~NotModified(last.req, Lookup(Root \o last.req.line[2].segs))) =>
        /\ last.resp.status = 200
        /\ <<"Content-type", WasmType>> \in last.resp.headers
        /\ last.resp.body = FileBody(Lookup(Root \o last.req.line[2].segs).data)

\* A .wasm file in a subdirectory served with the registered type.
C2_Witness ==
    /\ last.read
    /\ last.req.line = <<"GET", UrlPath(TRUE, <<"pkg", "app.wasm">>, FALSE), "HTTP/1.0">>
    /\ last.resp.status = 200
    /\ <<"Content-type", WasmType>> \in last.resp.headers
    /\ last.resp.body = FileBody("pkg-bytes")

\* C3: an HTTP/1.x GET or HEAD whose path resolves to something that does
\* not exist or is not readable (and that is not the redirect of a directory
\* to its own URL with a trailing slash) is answered with status 404, never
\* with status 200 and never with file contents.
C3_GoneIs404 ==
    (last.read /\ Dispatched(last.req) /\ ~HandledAs09(last.req)
               /\ Gone(translate_path(last.req.line[2]))
               /\ ~(Stat(translate_path(last.req.line[2]).comps).kind = "dir"
                    /\ ~EndsWithSlash(last.req.line[2]))) =>
        /\ last.resp.status = 404
        /\ last.resp.body.kind # "file"

\* The files a name inside the served directory leads to when symbolic
\* links are followed.
ReachableInsideRoot ==
    {Stat(q) : q \in {r \in DOMAIN FS : IsPrefix(Root, r) /\ Stat(r).kind = "file"}}

\* C4 (as claimed): no response body is the content of a file outside the
\* served directory.
C4_BodyNeverFromOutsideRoot ==
    (last.read /\ last.resp.status = 200 /\ last.resp.body.kind = "file") =>
        \E q \in DOMAIN FS :
            /\ IsPrefix(Root, q)
            /\ FS[q].kind = "file"
            /\ FS[q].data = last.resp.body.data

\* C4 (amended): for every request path, "../" segments and percent-encoded
\* ones included, the path the server resolves is the served directory
\* followed by plain names only, and a response body is the content of a
\* file that a name inside the served directory leads to: a file outside it
\* is served only through a symbolic link placed inside it.
C4_ResolvedInsideRoot ==
    (last.read /\ Len(last.req.line) >= 2) =>
        /\ IsPrefix(Root, translate_path(last.req.line[2]).comps)
        /\ \A i \in 1..Len(translate_path(last.req.line[2]).comps) :
              translate_path(last.req.line[2]).comps[i] \notin {"", ".", ".."}
        /\ last.resp.body.kind = "file" =>
              \E f \in ReachableInsideRoot : f.data = last.resp.body.data

\* A path that climbs out of the served directory, answered 404.
C4_Witness ==
    /\ last.read
    /\ last.req.line = <<"GET", UrlPath(FALSE, <<"..", "secret.wasm">>, FALSE), "HTTP/1.1">>
    /\ last.resp.status = 404

----------------------------------------------------------------------------
(* Properties of the running program, checked under Spec and LiveSpec.      *)

\* The request line is one parse_request rejects, or too long to read; a
\* blank line is no request.
Malformed(req) ==
    \/ req.long
    \/ Len(req.line) = 1 \/ Len(req.line) > 3
    \/ Len(req.line) = 2 /\ req.line[1] # "GET"
    \/ /\ Len(req.line) = 3
       /\ \/ VersionNumber(req.line[3]) = <<>>
          \/ VersionNumber(req.line[3])[1] >= 2

\* A request that fails: a malformed request line, a missing file, a file
\* that may not be read.
FailingRequest(req) ==
    \/ Malformed(req)
    \/ /\ Dispatched(req)
       /\ Gone(translate_path(req.line[2]))
       /\ Stat(translate_path(req.line[2]).comps).kind # "dir"

\* A request that is in order: an unconditional HTTP/1.x GET for a readable
\* .wasm file.
ValidRequest(req) ==
    /\ Dispatched(req)
    /\ req.line[1] = "GET"
    /\ ~HandledAs09(req)
    /\ WasmFileUrl(req.line[2])
    /\ Lookup(Root \o req.line[2].segs).readable
    /\ ~NotModified(req, Lookup(Root \o req.line[2].segs))

\* C5: a failing request (missing file, permission denied, malformed request
\* line) never ends the server: after any sequence of failing requests the
\* process is in its accept loop, the failing request was answered with an
\* HTTP error status, and a later valid request is answered 200 with the
\* bytes of its file.
C5_FailureYieldsErrorStatus ==
    /\ accepts => (pc = "line28" /\ exitStatus = Running)
    /\ (last.read /\ FailingRequest(last.req)) => last.resp.code >= 400
    /\ (last.read /\ ValidRequest(last.req)) =>
          /\ last.resp.status = 200
          /\ last.resp.body = FileBody(Lookup(Root \o last.req.line[2].segs).data)

\* The handler is blocked reading from a client that holds its connection
\* open without completing its request.
Stalled ==
    /\ pc = "line28"
    /\ cur # NoClient
    /\ conn[cur].open
    /\ conn[cur].sent # "full"

Waiting(c) == conn[c].sent = "full" /\ conn[c].open

Served(c) == conn[c].st = "done" \/ ~conn[c].open

\* C6 (as claimed): whatever happens on other connections (a client that
\* disconnects, stalls or is cut off), a client that has connected and sent
\* its request is eventually answered.
C6_OthersAlwaysAnswered ==
    \A c \in Clients : Waiting(c) ~> Served(c)

\* C6 (amended): a connection that fails by ending (the client disconnects
\* or is cut off, before or in the middle of its request) has no effect on
\* the others: the server keeps running and every client that has sent its
\* request is eventually answered, unless a client holds the server's one
\* connection open for ever without completing its request, which blocks
\* every other client for as long as it lasts.
C6_OthersAnsweredUnlessStalled ==
    /\ [](accepts => pc = "line28")
    /\ \A c \in Clients : (<>[]Stalled) \/ (Waiting(c) ~> Served(c))

\* A request answered after another connection had failed.
C6_Witness ==
    /\ last.read
    /\ "connection" \in last.after
    /\ last.delivered
    /\ last.resp.status = 200
    /\ \E c \in Clients : conn[c].st = "done" /\ conn[c].got = "reply"
    /\ pc = "line28"

BindErrors == {"OSError", "PermissionError", "OverflowError"}

\* C7: when binding the listening port fails the process ends at startup
\* with a non-zero exit status: it never serves, never prints the startup
\* lines and never accepts a connection.
C7_BindFailureIsFatal ==
    raised \in BindErrors =>
        /\ pc = "exited"
        /\ exitStatus >= 1
        /\ listenPort = NoPort
        /\ stdout = <<>>
        /\ ~accepts
        /\ backlog = <<>>
        /\ \A c \in Clients : conn[c].st = "idle"

\* A second instance on the default port, its bind refused.
C7_Witness ==
    /\ argv = <<>>
    /\ port = 8000
    /\ raised = "OSError"
    /\ exitStatus = 1

\* C8 (as claimed): the listening port is 8000 without an argument and the
\* integer value of the first argument when one is given.
C8_ListensOnArgument ==
    listenPort # NoPort =>
        listenPort = (IF argv = <<>> THEN 8000 ELSE IntValue(argv[1]))

\* C8 (amended): the listening port is 8000 without an argument and the
\* integer value of the first argument when that value is between 1 and
\* 65535; for the argument 0 the kernel picks the listening port, while the
\* program's port, the one it prints, stays 0.  Neither changes afterwards.
C8_ListensOnArgumentUnlessZero ==
    /\ [](listenPort # NoPort =>
            /\ argv = <<>> => (port = 8000 /\ listenPort = 8000)
            /\ argv = << <<"9", "9", "9", "9">> >> => (port = 9999 /\ listenPort = 9999)
            /\ argv # <<>> => port = IntValue(argv[1])
            /\ port \in 1..65535 => listenPort = port
            /\ port = 0 => listenPort \in EphemeralPorts)
    /\ [][/\ port # NoPort => port' = port
          /\ listenPort # NoPort => listenPort' = listenPort]_vars

\* Serving on the port given as argument.
C8_Witness ==
    /\ argv = << <<"9", "9", "9", "9">> >>
    /\ listenPort = 9999
    /\ accepts

\* C9: when the first argument is not an integer the process fails before
\* it binds a socket and exits with a non-zero status; it never listens, on
\* port 8000 or any other.
C9_BadArgumentIsFatal ==
    (Len(argv) > 0 /\ ~IntOk(argv[1])) =>
        /\ port = NoPort
        /\ listenPort = NoPort
        /\ stdout = <<>>
        /\ ~accepts
        /\ backlog = <<>>
        /\ pc \in {"line13", "line23", "exited"}
        /\ pc = "exited" => (raised = "ValueError" /\ exitStatus >= 1)

\* The argument "abc" rejected.
C9_Witness ==
    /\ argv = << <<"a", "b", "c">> >>
    /\ pc = "exited"
    /\ raised = "ValueError"
    /\ exitStatus = 1

StartupLines(p) ==
    <<[text |-> "Serving at http://localhost:", port |-> p],
      [text |-> "WASM files will be served", port |-> NoPort]>>

\* C10: startup is bind, print, serve: the two startup lines are written
\* once each, only after the listener is bound and before the first
\* connection is accepted, and once the accept loop is entered the server
\* never leaves it on its own.
C10_BindPrintServe ==
    /\ [](/\ Len(stdout) <= 2
          /\ stdout = SubSeq(StartupLines(port), 1, Len(stdout))
          /\ stdout # <<>> => listenPort # NoPort
          /\ (accepts \/ pc = "line28") => stdout = StartupLines(port)
          /\ pc = "line28" => exitStatus = Running)
    /\ [][/\ pc = "line28" => pc' = "line28"
          /\ Len(stdout) = 2 => stdout' = stdout]_vars

\* Both lines printed, connections accepted, requests failed, still serving.
C10_Witness ==
    /\ pc = "line28"
    /\ accepts
    /\ stdout = StartupLines(8000)
    /\ failures = {"request", "connection"}

====
